---- MODULE Spec2Model ----
(***************************************************************************)
(* Model of scrape_ncss_data (src/pre_analyse/fetch_data.py): the          *)
(* pagination loop, the per-list-item extraction and the final CSV write.  *)
(*                                                                         *)
(* Python strings are modelled as sequences of tokens, so that the empty   *)
(* string is <<>> and concatenation is \o.  A Python value is a record     *)
(* [t, v]: Str(s) for a string, None for None.                             *)
(***************************************************************************)
EXTENDS Integers, Sequences, FiniteSets, TLC

\* ---------------------------------------------------------------- bounds
MaxPages == 3
MaxItems == 2

\* ---------------------------------------------------------- Python values
None == [t |-> "None", v |-> <<>>]
Str(s) == [t |-> "str", v |-> s]

\* truthiness of a str-or-None value (used by "href and ...")
Truthy(x) == x.t = "str" /\ x.v # <<>>

\* -------------------------------------------------------- parsed elements
\* The result of item_li.find(...): NoTag when find returns None, otherwise
\* a tag whose requested attribute is attr (None when the tag lacks it).
NoTag == [present |-> FALSE, attr |-> None]
Tag(a) == [present |-> TRUE, attr |-> a]

\* tag.get(name): the attribute value, or None when the attribute is missing
Get(tag) == tag.attr

domain_url == <<"https://cy.ncss.cn">>

\* A list item: its first anchor and its four labelled div sub-elements.
Li(a, left, mtqy, mtzb, mtlb) ==
    [a |-> a, left |-> left, mtqy |-> mtqy, mtzb |-> mtzb, mtlb |-> mtlb]

\* a list item without an anchor (not a data row)
LiNoAnchor ==
    Li(NoTag, Tag(Str(<<"t0">>)), Tag(Str(<<"c0">>)), Tag(Str(<<"g0">>)), Tag(Str(<<"k0">>)))
\* a well-formed row: root-relative href and all four titled sub-elements
LiFull ==
    Li(Tag(Str(<<"/", "mt", "1">>)), Tag(Str(<<"t1">>)), Tag(Str(<<"c1">>)),
       Tag(Str(<<"g1">>)), Tag(Str(<<"k1">>)))
\* absolute href; title div missing, company div without a title attribute,
\* group div with an empty title
LiSparse ==
    Li(Tag(Str(<<"http://x", "/", "2">>)), NoTag, Tag(None), Tag(Str(<<>>)), Tag(Str(<<"k2">>)))

ItemSet == {LiNoAnchor, LiFull, LiSparse}

RECURSIVE SeqsUpTo(_, _)
SeqsUpTo(S, n) ==
    IF n = 0 THEN {<<>>}
    ELSE LET shorter == SeqsUpTo(S, n - 1)
         IN shorter \cup {Append(s, x) : s \in {q \in shorter : Len(q) = n - 1}, x \in S}

\* the documents a successful response can parse to: the <li> sequences
Pages == SeqsUpTo(ItemSet, MaxItems)

\* HTTP statuses on which raise_for_status raises
ErrorStatus == {403, 500}

\* ------------------------------------------------------------- extraction
\* line 84: domain_url + href if href and href.startswith('/') else href
FullLink(href) ==
    IF Truthy(href) /\ href.v[1] = "/" THEN Str(domain_url \o href.v) ELSE href

\* lines 86-96: div.get('title') if div else ''
FieldOf(div) == IF div.present THEN Get(div) ELSE Str(<<>>)

\* lines 98-104: the appended dict
ItemRecord(li) ==
    [Link |-> FullLink(Get(li.a)),
     Title |-> FieldOf(li.left),
     Company |-> FieldOf(li.mtqy),
     Group |-> FieldOf(li.mtzb),
     Category |-> FieldOf(li.mtlb)]

\* lines 77-105: page_data_found after the items 1..n were processed
FoundIn(items, n) == \E m \in 1..n : items[m].a.present

\* faulty variant: the missing-anchor test of lines 80-81 is left out
AppendItem_NoSkip(data, li) == Append(data, ItemRecord(li))

\* faulty variant: the record is inserted at the front of the list
AppendItem_Front(data, li) ==
    IF ~li.a.present THEN data ELSE <<ItemRecord(li)>> \o data

\* lines 79-104: one iteration of the item loop on the accumulated list
AppendItem(data, li) ==
    IF ~li.a.present THEN data ELSE Append(data, ItemRecord(li))

\* faulty variant: the page_index > 1 conjunct is left out
ShouldBreak_AnyPage(items, idx) == items = <<>>

\* faulty variant: the test is on the records the page would yield
ShouldBreak_NoAnchor(items, idx) ==
    idx > 1 /\ \A n \in 1..Len(items) : ~items[n].a.present

\* line 73: if not list_items and page_index > 1
ShouldBreak(items, idx) == items = <<>> /\ idx > 1

\* faulty variant: the early return of lines 129-131 is left out
HasData_Always(data) == TRUE

\* line 129: the negation of "if not all_items_data"
HasData(data) == data # <<>>

\* ------------------------------------------------------------- CSV output
csv_fieldnames == <<"Link", "Title", "Company", "Group", "Category">>

\* csv writes None as the empty string and a str as itself
Cell(x) == IF x.t = "None" THEN <<>> ELSE x.v

CsvRow(rec) == <<Cell(rec.Link), Cell(rec.Title), Cell(rec.Company), Cell(rec.Group), Cell(rec.Category)>>

CsvRows(data) == [n \in 1..Len(data) |-> CsvRow(data[n])]

\* the output file: never opened, or opened and written completely, or opened
\* and left incomplete by an IOError (its content is then not modelled)
NoFile == [opened |-> FALSE, complete |-> FALSE, bom |-> FALSE, header |-> <<>>, rows |-> <<>>]

BrokenFile == [opened |-> TRUE, complete |-> FALSE, bom |-> FALSE, header |-> <<>>, rows |-> <<>>]

WrittenFile(data) ==
    [opened |-> TRUE, complete |-> TRUE, bom |-> TRUE,
     header |-> csv_fieldnames, rows |-> CsvRows(data)]

\* lines 78-105: the item loop over the first n items of the document
RECURSIVE ProcessItems(_, _, _)
ProcessItems(data, items, n) ==
    IF n = 0 THEN data
    ELSE AppendItem(ProcessItems(data, items, n - 1), items[n])

\* ---------------------------------------------------- reference extraction
\* the list items of a document that are data rows, in document order
Anchored(items) == SelectSeq(items, LAMBDA li : li.a.present)

\* the records of a whole document: one per list item with an anchor, in
\* document order (lines 78-105 run to completion)
ExpectedRecords(items) ==
    [n \in 1..Len(Anchored(items)) |-> ItemRecord(Anchored(items)[n])]

AnchorCount(items) == Cardinality({n \in 1..Len(items) : items[n].a.present})

\* ------------------------------------------------------------------ state
VARIABLES
    max_pages,        \* argument max_pages
    page_index,       \* loop variable of line 52 (0 before the first iteration)
    pc,               \* "loop" | "after" | "done"
    page_items,       \* history: list_items (line 71) of the last iteration when
                      \* it was processed to completion, <<>> otherwise
    all_items_data,   \* line 49
    file,             \* the output CSV file
    hist,             \* history: one entry per requests.get issued
    data_before,      \* history: all_items_data when the last page was requested
    expected,         \* history: records of the pages processed to completion
    expected_n,       \* history: sum of the record counts of those pages
    slept             \* history: time.sleep(1) ran since the last requests.get

vars == <<max_pages, page_index, pc, page_items,
          all_items_data, file, hist, data_before, expected, expected_n, slept>>

\* where the for loop of line 52 goes after iteration idx ends by falling
\* through or by continue
NextPc(idx) == IF idx < max_pages THEN "loop" ELSE "after"

\* one history entry: the page requested, how the iteration ended, the HTTP
\* status, whether the document had no list item, whether the iteration
\* was processed to completion with page_data_found still False (the log of
\* lines 107-108; always so after the break of line 75), and whether the
\* politeness delay ran between the previous request and this one
Entry(idx, kind, status, nolis, norecs) ==
    [page |-> idx, kind |-> kind, status |-> status, nolis |-> nolis,
     norecs |-> norecs, delayed |-> slept]

Init ==
    /\ max_pages \in 0..MaxPages
    /\ page_index = 0
    /\ pc = IF 0 < max_pages THEN "loop" ELSE "after"
    /\ page_items = <<>>
    /\ all_items_data = <<>>
    /\ file = NoFile
    /\ hist = <<>>
    /\ data_before = <<>>
    /\ expected = <<>>
    /\ expected_n = 0
    /\ slept = FALSE

\* ---------------------------------------------------------------- actions
\* Each action is one iteration of the for loop of line 52, from
\* requests.get to the end of the iteration (fall through, continue or
\* break), or one way of leaving the function after the loop.

\* lines 64-75: the request succeeds and the test of line 73 on the parsed
\* list items breaks out of the loop, before the item loop
PageBreak ==
    /\ pc = "loop"
    /\ \E items \in Pages :
        /\ ShouldBreak(items, page_index + 1)
        /\ page_items' = items
        /\ hist' = Append(hist, Entry(page_index + 1, "success", 200, items = <<>>, TRUE))
    /\ page_index' = page_index + 1
    /\ pc' = "after"
    /\ data_before' = all_items_data
    /\ slept' = FALSE
    /\ UNCHANGED <<max_pages, all_items_data, file, expected, expected_n>>

\* lines 64-111: the request succeeds, the test of line 73 does not break,
\* every list item is processed, then the log of lines 107-108 and the sleep
PageProcessed ==
    /\ pc = "loop"
    /\ \E items \in Pages :
        /\ ~ShouldBreak(items, page_index + 1)
        /\ page_items' = items
        /\ all_items_data' = ProcessItems(all_items_data, items, Len(items))
        /\ hist' = Append(hist, Entry(page_index + 1, "success", 200,
                                      items = <<>>, ~FoundIn(items, Len(items))))
        /\ expected' = expected \o ExpectedRecords(items)
        /\ expected_n' = expected_n + AnchorCount(items)
    /\ page_index' = page_index + 1
    /\ pc' = NextPc(page_index + 1)
    /\ data_before' = all_items_data
    /\ slept' = TRUE
    /\ UNCHANGED <<max_pages, file>>

\* lines 64-105, 125-127: the request succeeds, the test of line 73 does not
\* break, and a non-request exception is raised while item n is processed,
\* before its append; the records appended for the items before n stay in
\* all_items_data; continue
PageRaises ==
    /\ pc = "loop"
    /\ \E items \in Pages :
        /\ ~ShouldBreak(items, page_index + 1)
        /\ \E n \in 1..Len(items) :
            all_items_data' = ProcessItems(all_items_data, items, n - 1)
    /\ page_items' = <<>>
    /\ hist' = Append(hist, Entry(page_index + 1, "unexpected", 200, FALSE, FALSE))
    /\ page_index' = page_index + 1
    /\ pc' = NextPc(page_index + 1)
    /\ data_before' = all_items_data
    /\ slept' = FALSE
    /\ UNCHANGED <<max_pages, file, expected, expected_n>>

\* faulty variant: the Timeout handler breaks instead of continuing
FetchTimeout_Break ==
    /\ pc = "loop"
    /\ page_index' = page_index + 1
    /\ hist' = Append(hist, Entry(page_index + 1, "timeout", 0, FALSE, FALSE))
    /\ pc' = "after"
    /\ data_before' = all_items_data
    /\ slept' = FALSE
    /\ page_items' = <<>>
    /\ UNCHANGED <<max_pages, all_items_data, file, expected, expected_n>>

\* lines 64, 113-115: requests.get raises Timeout; continue
FetchTimeout ==
    /\ pc = "loop"
    /\ page_index' = page_index + 1
    /\ hist' = Append(hist, Entry(page_index + 1, "timeout", 0, FALSE, FALSE))
    /\ pc' = NextPc(page_index + 1)
    /\ data_before' = all_items_data
    /\ slept' = FALSE
    /\ page_items' = <<>>
    /\ UNCHANGED <<max_pages, all_items_data, file, expected, expected_n>>

\* lines 65, 116-121: raise_for_status raises HTTPError; break
FetchHTTPError ==
    /\ pc = "loop"
    /\ \E st \in ErrorStatus :
        hist' = Append(hist, Entry(page_index + 1, "http", st, FALSE, FALSE))
    /\ page_index' = page_index + 1
    /\ pc' = "after"
    /\ data_before' = all_items_data
    /\ slept' = FALSE
    /\ page_items' = <<>>
    /\ UNCHANGED <<max_pages, all_items_data, file, expected, expected_n>>

\* lines 64, 122-124: any other RequestException (connection error ...); break
FetchRequestException ==
    /\ pc = "loop"
    /\ page_index' = page_index + 1
    /\ hist' = Append(hist, Entry(page_index + 1, "network", 0, FALSE, FALSE))
    /\ pc' = "after"
    /\ data_before' = all_items_data
    /\ slept' = FALSE
    /\ page_items' = <<>>
    /\ UNCHANGED <<max_pages, all_items_data, file, expected, expected_n>>

\* lines 55-71, 125-127: a non-request exception before the item loop
\* (in requests.get or while the document is parsed); continue
FetchUnexpected ==
    /\ pc = "loop"
    /\ page_index' = page_index + 1
    /\ hist' = Append(hist, Entry(page_index + 1, "unexpected", 0, FALSE, FALSE))
    /\ pc' = NextPc(page_index + 1)
    /\ data_before' = all_items_data
    /\ slept' = FALSE
    /\ page_items' = <<>>
    /\ UNCHANGED <<max_pages, all_items_data, file, expected, expected_n>>

\* lines 129-131: nothing scraped, return without touching the file
NoData ==
    /\ pc = "after"
    /\ ~HasData(all_items_data)
    /\ pc' = "done"
    /\ UNCHANGED <<max_pages, page_index, page_items,
                   all_items_data, file, hist, data_before, expected, expected_n, slept>>

\* lines 134-140: the file is opened (utf-8-sig) and header and rows written
WriteCsv ==
    /\ pc = "after"
    /\ HasData(all_items_data)
    /\ file' = WrittenFile(all_items_data)
    /\ pc' = "done"
    /\ UNCHANGED <<max_pages, page_index, page_items,
                   all_items_data, hist, data_before, expected, expected_n, slept>>

\* lines 136-142: open raises IOError and there is no file, or a write
\* raises it and the file is left incomplete
WriteIOError ==
    /\ pc = "after"
    /\ HasData(all_items_data)
    /\ file' \in {NoFile, BrokenFile}
    /\ pc' = "done"
    /\ UNCHANGED <<max_pages, page_index, page_items,
                   all_items_data, hist, data_before, expected, expected_n, slept>>

Next ==
    \/ PageBreak
    \/ PageProcessed
    \/ PageRaises
    \/ FetchTimeout
    \/ FetchHTTPError
    \/ FetchRequestException
    \/ FetchUnexpected
    \/ NoData
    \/ WriteCsv
    \/ WriteIOError

Spec == Init /\ [][Next]_vars

LastEntry == hist[Len(hist)]

\* ----------------------------------------------------------------- claims

\* C1 as stated: every page k > 1 that is fetched successfully and yields
\* zero records (list items without anchors included) is the last page
\* requested in the run.
C1_BreakOnZeroRecords ==
    \A j \in 1..Len(hist) :
        (j > 1 /\ hist[j].kind = "success" /\ hist[j].norecs) => Len(hist) = j

\* C1 amended: a successfully fetched page k > 1 with zero list items is the
\* last page requested; a successfully processed page that has list items
\* but none with an anchor yields zero records and does not stop the loop:
\* the loop is not left after it when k < max_pages, and when the run has
\* ended page k+1 was requested.
C1_BreakOnZeroListItems ==
    \A j \in 1..Len(hist) :
        hist[j].kind = "success" =>
            /\ (j > 1 /\ hist[j].nolis) => Len(hist) = j
            /\ (~hist[j].nolis /\ hist[j].norecs /\ j < max_pages) =>
                   /\ Len(hist) = j => pc = "loop"
                   /\ pc = "done" => (Len(hist) > j /\ hist[j + 1].page = j + 1)

C1_Witness ==
    /\ pc = "done"
    /\ Len(hist) = 3
    /\ hist[2].kind = "success" /\ ~hist[2].nolis /\ hist[2].norecs
    /\ hist[3].kind = "success" /\ hist[3].nolis

\* C2: a successfully fetched page with zero list items stops the loop
\* exactly when its index is greater than 1: page k > 1 is the last page
\* requested and the loop is over; after an empty page 1 the loop goes on
\* and, when max_pages >= 2, page 2 is the next page requested.
C2_EmptyPageStopsIffLater ==
    \A j \in 1..Len(hist) :
        (hist[j].kind = "success" /\ hist[j].nolis) =>
            /\ j > 1 => (Len(hist) = j /\ pc \in {"after", "done"})
            /\ (j = 1 /\ max_pages >= 2 /\ Len(hist) = 1) => pc = "loop"
            /\ (j = 1 /\ max_pages >= 2 /\ pc = "done")
                   => (Len(hist) >= 2 /\ hist[2].page = 2)

C2_Witness ==
    /\ pc = "done"
    /\ max_pages = 3
    /\ Len(hist) = 2
    /\ hist[1].kind = "success" /\ hist[1].nolis
    /\ hist[2].kind = "success" /\ hist[2].nolis

\* C3 as stated: when the request of page k fails with an HTTP or network
\* error no later page is requested, and a file that is written holds
\* exactly the records of the pages before k that were processed
\* successfully, in page order.
C3_AbortKeepsExactlyEarlierPages ==
    \A j \in 1..Len(hist) :
        hist[j].kind \in {"http", "network"} =>
            /\ Len(hist) = j
            /\ (pc = "done" /\ file.complete) => file.rows = CsvRows(expected)

\* C4: a timeout of page k leaves the accumulated records as they were
\* before page k was requested; every page is requested at most once, in
\* increasing order; the loop goes on, and page k+1 is the next page
\* requested when k < max_pages.
C4_TimeoutSkipsPage ==
    /\ \A j \in 1..Len(hist) : hist[j].page = j
    /\ \A j \in 1..Len(hist) :
        hist[j].kind = "timeout" =>
            /\ j = Len(hist) => all_items_data = data_before
            /\ (j = Len(hist) /\ j < max_pages) => pc = "loop"
            /\ (j < max_pages /\ pc = "done") => (Len(hist) > j /\ hist[j + 1].page = j + 1)

C4_Witness ==
    /\ pc = "done"
    /\ Len(hist) = 3
    /\ hist[1].kind = "success" /\ ~hist[1].norecs
    /\ hist[2].kind = "timeout"
    /\ hist[3].kind = "success" /\ ~hist[3].norecs
    /\ file.complete

\* C5: when every page of 1..max_pages was fetched and processed
\* successfully with at least one record and the write succeeded, the data
\* rows of the file are the per-page record sequences concatenated in page
\* order, each in document order, and their number is the sum of the
\* per-page record counts.
C5_AllPagesRowsAreConcatenation ==
    (/\ pc = "done"
     /\ max_pages >= 1
     /\ Len(hist) = max_pages
     /\ \A j \in 1..Len(hist) : hist[j].kind = "success" /\ ~hist[j].norecs
     /\ file.complete)
    => /\ file.header = csv_fieldnames
       /\ file.rows = CsvRows(expected)
       /\ Len(file.rows) = expected_n

C5_Witness ==
    /\ pc = "done"
    /\ max_pages = 3
    /\ Len(hist) = 3
    /\ \A j \in 1..3 : hist[j].kind = "success" /\ ~hist[j].norecs
    /\ Len(page_items) = 2
    /\ Len(file.rows) = 5
    /\ file.rows[1] # file.rows[2]
    /\ file.complete

\* C6: the output file is opened only when at least one record was
\* accumulated; a run that ends with no record leaves no file, whatever the
\* per-page outcomes were.
C6_NoFileWithoutData ==
    /\ file.opened => all_items_data # <<>>
    /\ (pc = "done" /\ all_items_data = <<>>) => file = NoFile

C6_Witness ==
    /\ pc = "done"
    /\ all_items_data = <<>>
    /\ file = NoFile
    /\ Len(hist) = 3
    /\ hist[1].kind = "success" /\ ~hist[1].nolis
    /\ hist[2].kind = "timeout"
    /\ hist[3].kind = "http"

\* C7 as stated: in the record extracted from a list item each of Title,
\* Company, Group and Category is a string: the title attribute of its
\* sub-element when that is present, the empty string when the sub-element
\* or its title attribute is missing.
C7_FieldsAreStrings ==
    (hist # <<>> /\ LastEntry.kind = "success") =>
        \A n \in 1..Len(Anchored(page_items)) :
            LET li == Anchored(page_items)[n]
                rec == all_items_data[Len(data_before) + n]
                claimed(div) == IF div.present /\ div.attr.t = "str" THEN div.attr ELSE Str(<<>>)
            IN /\ rec.Title = claimed(li.left)
               /\ rec.Company = claimed(li.mtqy)
               /\ rec.Group = claimed(li.mtzb)
               /\ rec.Category = claimed(li.mtlb)

\* C8: a page processed to completion adds exactly one record per list item
\* with an anchor and none for an item without, in document order.
C8_OneRecordPerAnchoredItem ==
    (hist # <<>> /\ LastEntry.kind = "success") =>
        /\ all_items_data = data_before \o ExpectedRecords(page_items)
        /\ Len(all_items_data) = Len(data_before) + AnchorCount(page_items)

C8_Witness ==
    /\ pc = "loop"
    /\ Len(hist) = 2
    /\ LastEntry.kind = "success"
    /\ data_before # <<>>
    /\ Len(page_items) = 2
    /\ ~page_items[1].a.present
    /\ page_items[2].a.present
    /\ Len(all_items_data) = Len(data_before) + 1

\* C9 as stated: every request after the first one of a run is preceded by
\* the politeness delay, applied after the request before it.
C9_DelayBeforeEveryLaterFetch ==
    \A j \in 2..Len(hist) : hist[j].delayed

\* C10 as stated: after an unexpected error on page k the accumulated
\* records are what they were before page k was requested, and the loop
\* goes on with page k+1 when k < max_pages.
C10_UnexpectedErrorSkipsWholePage ==
    (hist # <<>> /\ LastEntry.kind = "unexpected") =>
        /\ all_items_data = data_before
        /\ Len(hist) < max_pages => pc = "loop"

====
